---- MODULE Spec2Model ----
(***************************************************************************)
(* Paged TXT comparison of the Compare-App repository:                     *)
(* TXTComparator.load_file_by_pages, compare_page_worker,                  *)
(* TXTComparator.compare_pages_streaming, calculate_analytics and compare  *)
(* (src/core/comparators/txt/txt_comparison.py).                           *)
(*                                                                         *)
(* A line is a sequence of characters (readlines keeps the trailing        *)
(* newline, written NL).  A file is a sequence of lines.  Page numbers     *)
(* are 0-based as in the code; TLA+ sequences are 1-based, so page p is    *)
(* element p + 1 of a sequence of pages.                                   *)
(*                                                                         *)
(* Floating point values of the code are modelled exactly: a ratio is a    *)
(* pair <<numerator, denominator>>, and ratio() * page_total is the        *)
(* integer 2 * matches (page_total is the denominator of ratio()).         *)
(* difflib's autojunk heuristic only acts on sequences of 200 or more      *)
(* elements, which lie beyond the bounds below.                            *)
(***************************************************************************)
EXTENDS Integers, Sequences, FiniteSets, TLC

(* ------------------------------ bounds -------------------------------- *)

\* longest file (in lines) on either side
MaxLines == 2

\* largest page size (lines per page) tried
MaxPageLines == 2

\* most unit completions that raise in one run
MaxErrors == 1

(* ---------------------------- input alphabet -------------------------- *)

NL == "nl"

\* the lines a file may hold: a pair the differ joins with hint lines
\* (ratio 0.75) and one line unlike the others
Vocabulary ==
  { <<"a", "b", "c", NL>>,
    <<"a", "b", "d", NL>>,
    <<"x", NL>> }

RECURSIVE SeqsUpTo(_, _)
SeqsUpTo(S, n) ==
  IF n = 0 THEN { <<>> }
  ELSE LET shorter == SeqsUpTo(S, n - 1)
       IN  shorter \cup { Append(s, x) : s \in { t \in shorter : Len(t) = n - 1 }, x \in S }

Max(x, y) == IF x >= y THEN x ELSE y
Min(x, y) == IF x <= y THEN x ELSE y

\* "".join(lines)
RECURSIVE Join(_)
Join(lines) ==
  IF lines = <<>> THEN <<>> ELSE Head(lines) \o Join(Tail(lines))

(* --------------------- difflib.SequenceMatcher ------------------------ *)
(* Ranges are half open and 0-based as in difflib: element i of a is       *)
(* a[i + 1].  Intermediate values are handed on as operator arguments.     *)

\* length of the common run of a from i and b from j, inside [.., ahi) x [.., bhi)
RECURSIVE RunLen(_, _, _, _, _, _)
RunLen(a, b, i, ahi, j, bhi) ==
  IF i < ahi /\ j < bhi /\ a[i + 1] = b[j + 1]
  THEN 1 + RunLen(a, b, i + 1, ahi, j + 1, bhi)
  ELSE 0

\* the block find_longest_match prefers among hits: the longest, of those
\* the one starting earliest in a, of those the one earliest in b
best_block(hits, none) ==
  IF hits = {} THEN none
  ELSE CHOOSE c \in hits :
         \A d \in hits :
           \/ c[3] > d[3]
           \/ c[3] = d[3] /\ c[1] < d[1]
           \/ c[3] = d[3] /\ c[1] = d[1] /\ c[2] <= d[2]

\* SequenceMatcher.find_longest_match without junk; <<alo, blo, 0>> when
\* nothing matches
find_longest_match(a, b, alo, ahi, blo, bhi) ==
  best_block({ c \in { <<i, j, RunLen(a, b, i, ahi, j, bhi)>> :
                         i \in alo..(ahi - 1), j \in blo..(bhi - 1) } : c[3] > 0 },
             <<alo, blo, 0>>)

\* SequenceMatcher.get_matching_blocks, without the closing sentinel: the
\* longest block m of a range, then the blocks left and right of it
RECURSIVE matching_blocks(_, _, _, _, _, _)
RECURSIVE blocks_around(_, _, _, _, _, _, _)
matching_blocks(a, b, alo, ahi, blo, bhi) ==
  IF alo >= ahi \/ blo >= bhi THEN <<>>
  ELSE blocks_around(a, b, alo, ahi, blo, bhi, find_longest_match(a, b, alo, ahi, blo, bhi))

blocks_around(a, b, alo, ahi, blo, bhi, m) ==
  IF m[3] = 0 THEN <<>>
  ELSE matching_blocks(a, b, alo, m[1], blo, m[2])
         \o << m >>
         \o matching_blocks(a, b, m[1] + m[3], ahi, m[2] + m[3], bhi)

get_matching_blocks(a, b) == matching_blocks(a, b, 0, Len(a), 0, Len(b))

\* number of matched elements: sum of the block sizes
RECURSIVE sum_sizes(_)
sum_sizes(blocks) ==
  IF blocks = <<>> THEN 0 ELSE Head(blocks)[3] + sum_sizes(Tail(blocks))

matches(a, b) == sum_sizes(get_matching_blocks(a, b))

\* SequenceMatcher.ratio() as <<2 * matches, len(a) + len(b)>>; 1.0 for two
\* empty sequences
ratio(a, b) ==
  IF Len(a) + Len(b) = 0 THEN <<1, 1>>
  ELSE <<2 * matches(a, b), Len(a) + Len(b)>>

\* the opcode for the gap between position (i, j) and the next block start
\* (ai, bj)
gap_opcode(i, ai, j, bj) ==
  IF i < ai /\ j < bj THEN << <<"replace", i, ai, j, bj>> >>
  ELSE IF i < ai THEN << <<"delete", i, ai, j, bj>> >>
  ELSE IF j < bj THEN << <<"insert", i, ai, j, bj>> >>
  ELSE <<>>

\* SequenceMatcher.get_opcodes: <<tag, i1, i2, j1, j2>>; ends is the
\* sentinel block <<len(a), len(b), 0>>
RECURSIVE opcodes_from(_, _, _, _)
opcodes_from(blocks, i, j, ends) ==
  IF blocks = <<>> THEN gap_opcode(i, ends[1], j, ends[2])
  ELSE gap_opcode(i, Head(blocks)[1], j, Head(blocks)[2])
         \o << <<"equal", Head(blocks)[1], Head(blocks)[1] + Head(blocks)[3],
                 Head(blocks)[2], Head(blocks)[2] + Head(blocks)[3]>> >>
         \o opcodes_from(Tail(blocks), Head(blocks)[1] + Head(blocks)[3],
                         Head(blocks)[2] + Head(blocks)[3], ends)

get_opcodes(a, b) ==
  opcodes_from(get_matching_blocks(a, b), 0, 0, <<Len(a), Len(b), 0>>)

(* --------------------------- difflib.Differ --------------------------- *)
(* A diff line is [tag, text]: tag "+", "-", " " or "?" stands for the     *)
(* two-character prefix "+ ", "- ", "  " or "? " of the line.              *)

\* Differ._dump
RECURSIVE dump(_, _, _, _)
dump(tag, x, lo, hi) ==
  IF lo >= hi THEN <<>>
  ELSE << [tag |-> tag, text |-> x[lo + 1]] >> \o dump(tag, x, lo + 1, hi)

\* Differ._plain_replace: the shorter block first
plain_replace(a, alo, ahi, b, blo, bhi) ==
  IF bhi - blo < ahi - alo
  THEN dump("+", b, blo, bhi) \o dump("-", a, alo, ahi)
  ELSE dump("-", a, alo, ahi) \o dump("+", b, blo, bhi)

\* x > y for ratios <<num, den>>
RatioGreater(x, y) == x[1] * y[2] > y[1] * x[2]

\* one pass of the inner loop body of Differ._fancy_replace: equal lines set
\* eqi, eqj once; a pair with ratio r above best_ratio becomes the best
\* pair.  st is [best, i, j, eqi, eqj] with -1 for None
scan_step(st, i, j, equal, r) ==
  IF equal
  THEN IF st.eqi = -1 THEN [st EXCEPT !.eqi = i, !.eqj = j] ELSE st
  ELSE IF RatioGreater(r, st.best)
       THEN [st EXCEPT !.best = r, !.i = i, !.j = j]
       ELSE st

\* the scan of Differ._fancy_replace: for j in range(blo, bhi), for i in
\* range(alo, ahi)
RECURSIVE fancy_scan(_, _, _, _, _, _, _, _)
fancy_scan(a, alo, ahi, b, bhi, i, j, st) ==
  IF j >= bhi THEN st
  ELSE fancy_scan(a, alo, ahi, b, bhi,
                  IF i + 1 >= ahi THEN alo ELSE i + 1,
                  IF i + 1 >= ahi THEN j + 1 ELSE j,
                  scan_step(st, i, j, a[i + 1] = b[j + 1], ratio(a[i + 1], b[j + 1])))

RECURSIVE Repeat(_, _)
Repeat(c, n) == IF n <= 0 THEN <<>> ELSE <<c>> \o Repeat(c, n - 1)

\* the tag characters one intraline opcode adds to atags (side 1) or btags
\* (side 2)
tag_part(op, side) ==
  IF op[1] = "replace" THEN Repeat("^", IF side = 1 THEN op[3] - op[2] ELSE op[5] - op[4])
  ELSE IF op[1] = "delete" THEN Repeat("-", IF side = 1 THEN op[3] - op[2] ELSE 0)
  ELSE IF op[1] = "insert" THEN Repeat("+", IF side = 1 THEN 0 ELSE op[5] - op[4])
  ELSE Repeat(" ", IF side = 1 THEN op[3] - op[2] ELSE op[5] - op[4])

RECURSIVE tags_of(_, _)
tags_of(ops, side) ==
  IF ops = <<>> THEN <<>> ELSE tag_part(Head(ops), side) \o tags_of(Tail(ops), side)

IsSpace(c) == c \in {NL, " "}

\* difflib._keep_original_ws
keep_original_ws(line, tags) ==
  [k \in 1..Min(Len(line), Len(tags)) |->
     IF tags[k] = " " /\ IsSpace(line[k]) THEN line[k] ELSE tags[k]]

\* str.rstrip()
RECURSIVE rstrip(_)
rstrip(s) ==
  IF s = <<>> THEN s
  ELSE IF IsSpace(s[Len(s)]) THEN rstrip(SubSeq(s, 1, Len(s) - 1))
  ELSE s

\* a "? " line, left out when the tags are blank
hint_line(tags) == IF tags # <<>> THEN << [tag |-> "?", text |-> tags] >> ELSE <<>>

\* Differ._qformat
qformat(aline, bline, atags, btags) ==
  << [tag |-> "-", text |-> aline] >>
    \o hint_line(rstrip(keep_original_ws(aline, atags)))
    \o << [tag |-> "+", text |-> bline] >>
    \o hint_line(rstrip(keep_original_ws(bline, btags)))

\* the lines for the best pair: intraline opcodes turned into tags
qformat_ops(aelt, belt, ops) == qformat(aelt, belt, tags_of(ops, 1), tags_of(ops, 2))

fancy_pair(aelt, belt) == qformat_ops(aelt, belt, get_opcodes(aelt, belt))

\* Differ._fancy_replace (best_ratio 0.74, cutoff 0.75) and
\* Differ._fancy_helper.  fancy_emit is the part of _fancy_replace after
\* the scan, fancy_around its three yields around the pair (best_i, best_j)
RECURSIVE fancy_replace(_, _, _, _, _, _)
RECURSIVE fancy_emit(_, _, _, _, _, _, _)
RECURSIVE fancy_around(_, _, _, _, _, _, _, _, _)
RECURSIVE fancy_helper(_, _, _, _, _, _)
fancy_replace(a, alo, ahi, b, blo, bhi) ==
  fancy_emit(a, alo, ahi, b, blo, bhi,
             fancy_scan(a, alo, ahi, b, bhi, alo, blo,
                        [best |-> <<37, 50>>, i |-> -1, j |-> -1, eqi |-> -1, eqj |-> -1]))

fancy_emit(a, alo, ahi, b, blo, bhi, st) ==
  IF RatioGreater(<<3, 4>>, st.best)
  THEN IF st.eqi = -1
       THEN plain_replace(a, alo, ahi, b, blo, bhi)
       ELSE fancy_around(a, alo, ahi, b, blo, bhi, st.eqi, st.eqj,
                         << [tag |-> " ", text |-> a[st.eqi + 1]] >>)
  ELSE fancy_around(a, alo, ahi, b, blo, bhi, st.i, st.j,
                    fancy_pair(a[st.i + 1], b[st.j + 1]))

fancy_around(a, alo, ahi, b, blo, bhi, best_i, best_j, mid) ==
  fancy_helper(a, alo, best_i, b, blo, best_j)
    \o mid
    \o fancy_helper(a, best_i + 1, ahi, b, best_j + 1, bhi)

fancy_helper(a, alo, ahi, b, blo, bhi) ==
  IF alo < ahi
  THEN IF blo < bhi THEN fancy_replace(a, alo, ahi, b, blo, bhi)
       ELSE dump("-", a, alo, ahi)
  ELSE IF blo < bhi THEN dump("+", b, blo, bhi)
  ELSE <<>>

\* the lines Differ.compare yields for one opcode
opcode_lines(a, b, op) ==
  IF op[1] = "replace" THEN fancy_replace(a, op[2], op[3], b, op[4], op[5])
  ELSE IF op[1] = "delete" THEN dump("-", a, op[2], op[3])
  ELSE IF op[1] = "insert" THEN dump("+", b, op[4], op[5])
  ELSE dump(" ", a, op[2], op[3])

\* Differ.compare
RECURSIVE compare_ops(_, _, _)
compare_ops(a, b, ops) ==
  IF ops = <<>> THEN <<>>
  ELSE opcode_lines(a, b, Head(ops)) \o compare_ops(a, b, Tail(ops))

Differ_compare(a, b) == compare_ops(a, b, get_opcodes(a, b))

\* len([l for l in diff if l.startswith(tag)])
RECURSIVE CountTag(_, _)
CountTag(diff, tag) ==
  IF diff = <<>> THEN 0
  ELSE (IF Head(diff).tag = tag THEN 1 ELSE 0) + CountTag(Tail(diff), tag)

(* ------------------------- compare_page_worker ------------------------ *)

\* similarity = matcher.ratio() * page_total, or 0 for an empty page
page_similarity(dev_content, prod_content) ==
  IF Len(dev_content) + Len(prod_content) > 0 THEN ratio(dev_content, prod_content)[1] ELSE 0

\* mutant: '+ ' lines are counted as removed and '- ' lines as added
worker_tuple_swapped(page_num, dev_page_lines, prod_page_lines, diff) ==
  [ page_num |-> page_num,
    diff |-> diff,
    added |-> CountTag(diff, "-"),
    removed |-> CountTag(diff, "+"),
    changed |-> CountTag(diff, "?") \div 2,
    unchanged |-> CountTag(diff, " "),
    similarity |-> page_similarity(Join(dev_page_lines), Join(prod_page_lines)),
    total_chars |-> Len(Join(dev_page_lines)) + Len(Join(prod_page_lines)),
    dev_lines |-> dev_page_lines,
    prod_lines |-> prod_page_lines ]

\* mutant: the two lines of a pair joined by hint lines are left out of the
\* removed and added counts
worker_tuple_pairs_uncounted(page_num, dev_page_lines, prod_page_lines, diff) ==
  [ page_num |-> page_num,
    diff |-> diff,
    added |-> CountTag(diff, "+") - CountTag(diff, "?") \div 2,
    removed |-> CountTag(diff, "-") - CountTag(diff, "?") \div 2,
    changed |-> CountTag(diff, "?") \div 2,
    unchanged |-> CountTag(diff, " "),
    similarity |-> page_similarity(Join(dev_page_lines), Join(prod_page_lines)),
    total_chars |-> Len(Join(dev_page_lines)) + Len(Join(prod_page_lines)),
    dev_lines |-> dev_page_lines,
    prod_lines |-> prod_page_lines ]

\* the tuple compare_page_worker returns, given the diff
worker_tuple(page_num, dev_page_lines, prod_page_lines, diff) ==
  [ page_num |-> page_num,
    diff |-> diff,
    added |-> CountTag(diff, "+"),
    removed |-> CountTag(diff, "-"),
    changed |-> CountTag(diff, "?") \div 2,
    unchanged |-> CountTag(diff, " "),
    similarity |-> page_similarity(Join(dev_page_lines), Join(prod_page_lines)),
    total_chars |-> Len(Join(dev_page_lines)) + Len(Join(prod_page_lines)),
    dev_lines |-> dev_page_lines,
    prod_lines |-> prod_page_lines ]

compare_page_worker(page_num, dev_page_lines, prod_page_lines) ==
  worker_tuple(page_num, dev_page_lines, prod_page_lines,
               Differ_compare(dev_page_lines, prod_page_lines))

(* ------------------------------- state -------------------------------- *)

VARIABLES
  dev_file,        \* lines of the dev file (what readlines returns)
  prod_file,       \* lines of the prod file
  unreadable,      \* the sides ("dev", "prod") whose file open() raises on
  page_lines,      \* self.page_lines
  pc,              \* position in TXTComparator.compare
  dev_pages,       \* compare: dev_pages
  prod_pages,      \* compare: prod_pages
  tasks,           \* compare_pages_streaming: tasks, element p + 1 is page p
  futures,         \* the result tuple each submitted future resolves to,
                   \* keyed by page_num
  pending,         \* futures as_completed has not yielded yet
  results,         \* compare_pages_streaming: results, keyed by page_num
  outcome,         \* per yielded future: "ok", "error" (future.result()
                   \* raised) or "cb_error" (progress_cb raised)
  order,           \* page numbers in the order as_completed yielded the futures
  completed_count, \* compare_pages_streaming: completed_count
  total_chars,     \* compare_pages_streaming: the local total_chars
  progress_log,    \* the progress reports made: <<completed_count, total_pages>>
  warnings,        \* page numbers printed in "Error processing page" lines
  page_diffs,      \* self.page_diffs
  precalc,         \* the self._precalc_* fields, with the locals matching_chars
                   \* and total_chars they are computed from
  analytics,       \* self.analytics
  returned,        \* what compare() returned: [report_path, analytics]
  written,         \* the files compare() wrote: "html", "json"
  first_run,       \* once the comparison is run a second time: the analytics
                   \* and the unit outcomes of the first run
  writes,          \* per page_num: how many times results[page_num] was
                   \* assigned in this run
  worker,          \* the ComparisonWorker thread: is_cancelled, idx (the
                   \* mapping being compared), total_files,
                   \* comparison_results, its position, the number of unit
                   \* tasks submitted by its comparators so far and when
                   \* cancel() was called, whether run() returned on the
                   \* flag, the comparators it constructed, and the
                   \* mappings that failed on the file system
  app_state,       \* the AppState instance: screens, selected file type,
                   \* comparison status, session, recent sessions
  runner,          \* the ComparisonRunnerScreen in the UI thread: its
                   \* position, and the worker's comparison_complete and
                   \* comparison_error signals queued for its slots
  emitted,         \* the signals the worker has emitted, in order
  summary          \* the TxtSummaryGenerator: analytics_data, and the
                   \* value calculate_aggregate_stats returned

vars == << app_state, runner, emitted, summary,
           dev_file, prod_file, unreadable, written, first_run, worker, writes,
           page_lines, pc, dev_pages, prod_pages, tasks,
           futures, pending, results, outcome, order, completed_count, total_chars,
           progress_log, warnings, page_diffs, precalc, analytics, returned >>

Files == SeqsUpTo(Vocabulary, MaxLines)

NoValue == [none |-> TRUE]

\* the lines of the files of the hint-line runs: two lines the differ joins
\* with a hint line under each of them, and a third it joins to either
\* with a hint line under one of them only
HintVocabulary ==
  { <<"a", "b", "c", NL>>,
    <<"a", "b", "d", NL>>,
    <<"a", "b", NL>> }

HintFiles == SeqsUpTo(HintVocabulary, MaxLines)

Sides == {"dev", "prod"}

\* what f.readlines() may return for a side: nothing is read from a file
\* that open() raises on
readlines(side, failing, files) == IF side \in failing THEN { <<>> } ELSE files

(* ------------------------------ AppState ------------------------------ *)
(* The fields of AppState that navigation and the comparison status use.   *)

\* Python's None where a string is expected
None == "None"

\* AppState.__init__
AppState_init ==
  [ current_screen |-> "file_type_selector",
    screen_history |-> <<>>,
    selected_file_type |-> None,
    comparison_status |-> "IDLE",
    current_session |-> NoValue,
    master_summary_path |-> None,
    recent_sessions |-> <<>> ]

\* mutant: the screen is pushed even when it is the current screen
navigate_to_always(app, screen_name) ==
  [app EXCEPT !.screen_history = Append(@, app.current_screen),
              !.current_screen = screen_name]

\* AppState.navigate_to
navigate_to(app, screen_name) ==
  IF app.current_screen # screen_name
  THEN [app EXCEPT !.screen_history = Append(@, app.current_screen),
                   !.current_screen = screen_name]
  ELSE app

\* AppState.can_go_back
can_go_back(app) == Len(app.screen_history) > 0

\* screen_history.pop(): the list without its last element
Popped(history) == SubSeq(history, 1, Len(history) - 1)

\* AppState.go_back: the state it leaves and the value it returns
go_back(app) ==
  IF can_go_back(app)
  THEN [ app |-> [app EXCEPT !.screen_history = Popped(@),
                             !.current_screen = app.screen_history[Len(app.screen_history)]],
         result |-> app.screen_history[Len(app.screen_history)] ]
  ELSE [ app |-> app, result |-> None ]

\* MainWindow.screen_indices: the screens of the stacked widget
screen_indices ==
  { "file_type_selector", "folder_selector", "comparison_runner" }

\* the screen names of config.py
Screens == screen_indices \cup { "report_viewer" }

\* MainWindow._navigate_to_screen: AppState after it
MainWindow_navigate_to_screen(app, screen_name) ==
  IF screen_name \in screen_indices THEN navigate_to(app, screen_name) ELSE app

\* what MainWindow._go_back does with the value go_back returned
renavigate(went) ==
  IF went.result # None
  THEN MainWindow_navigate_to_screen(went.app, went.result)
  ELSE went.app

\* MainWindow._go_back: AppState after it
MainWindow_go_back(app) == renavigate(go_back(app))

\* ComparisonWorker.__init__: the thread is not started
ComparisonWorker_init ==
  [ is_cancelled |-> FALSE, idx |-> 1, at |-> "idle", total_files |-> 0,
    comparison_results |-> <<>>, submitted |-> 0, submitted_at_cancel |-> 0,
    observed_cancel |-> FALSE, constructed |-> <<>>, env_errors |-> {} ]

\* the state after construction: the two files drawn from files, the sides
\* that cannot be opened from failing, the page size from sizes, and the
\* snapshots the summary generator has loaded from datas
InitWith(files, failing, sizes, datas) ==
  /\ unreadable \in failing
  /\ dev_file \in readlines("dev", unreadable, files)
  /\ prod_file \in readlines("prod", unreadable, files)
  /\ app_state = AppState_init
  /\ runner = [ at |-> "idle", queue |-> <<>>, cancel_handled |-> FALSE ]
  /\ emitted = <<>>
  /\ summary \in { [ analytics_data |-> d, stats |-> NoValue ] : d \in datas }
  /\ written = {}
  /\ first_run = NoValue
  /\ writes = <<>>
  /\ worker = ComparisonWorker_init
  /\ page_lines \in sizes
  /\ pc = "load"
  /\ dev_pages = <<>>
  /\ prod_pages = <<>>
  /\ tasks = <<>>
  /\ futures = <<>>
  /\ pending = {}
  /\ results = <<>>
  /\ outcome = <<>>
  /\ order = <<>>
  /\ completed_count = 0
  /\ total_chars = 0
  /\ progress_log = <<>>
  /\ warnings = <<>>
  /\ page_diffs = <<>>
  /\ precalc = NoValue
  /\ analytics = NoValue
  /\ returned = NoValue

\* the state after construction, the two files drawn from files
InitFrom(files) == InitWith(files, SUBSET Sides, 1..MaxPageLines, { <<>> })

Init == InitFrom(Files)

InitHints == InitFrom(HintFiles)

(* ------------------ TXTComparator.load_file_by_pages ------------------ *)

\* number of pages: len(range(0, n, L))
PageCount(n, L) == (n + L - 1) \div L

\* mutant: only full pages are kept, the shorter last page is lost
load_file_by_pages_full_only(all_lines, L) ==
  [k \in 1..(Len(all_lines) \div L) |->
     SubSeq(all_lines, (k - 1) * L + 1, k * L)]

\* pages[k] = all_lines[i : i + L] for i = (k - 1) * L
load_file_by_pages(all_lines, L) ==
  [k \in 1..PageCount(Len(all_lines), L) |->
     SubSeq(all_lines, (k - 1) * L + 1, Min(k * L, Len(all_lines)))]

(* ----------------- TXTComparator.compare_pages_streaming -------------- *)

\* mutant: units only for the pages both sides have
prepare_tasks_common(dp, pp) ==
  [k \in 1..Min(Len(dp), Len(pp)) |->
     [ page_num |-> k - 1, dev_lines |-> dp[k], prod_lines |-> pp[k] ]]

\* load_file_by_pages with its except branch: [] when open() raises
load_pages(raises, all_lines, L) ==
  IF raises THEN <<>> ELSE load_file_by_pages(all_lines, L)

\* the task list: page_num, dev_page_lines, prod_page_lines, a side without
\* page page_num contributing []
prepare_tasks(dp, pp) ==
  [k \in 1..Max(Len(dp), Len(pp)) |->
     [ page_num |-> k - 1,
       dev_lines |-> IF k - 1 < Len(dp) THEN dp[k] ELSE <<>>,
       prod_lines |-> IF k - 1 < Len(pp) THEN pp[k] ELSE <<>> ]]

\* the entry stored in results for a future whose result r arrived
result_entry(r) ==
  [ page_num |-> r.page_num,
    dev_lines |-> r.dev_lines,
    prod_lines |-> r.prod_lines,
    diff |-> r.diff,
    stats |-> [ added |-> r.added, removed |-> r.removed, changed |-> r.changed,
                unchanged |-> r.unchanged, similarity_weighted |-> r.similarity,
                total_chars |-> r.total_chars ] ]

\* mutant: the empty entry keeps a count for the failed page
empty_entry_counted(page_num) ==
  [ page_num |-> page_num + 1,
    dev_lines |-> <<>>,
    prod_lines |-> <<>>,
    diff |-> <<>>,
    stats |-> [ added |-> 0, removed |-> 0, changed |-> 0, unchanged |-> 1,
                similarity_weighted |-> 0, total_chars |-> 0 ] ]

\* the entry stored by the except branch
empty_entry(page_num) ==
  [ page_num |-> page_num + 1,
    dev_lines |-> <<>>,
    prod_lines |-> <<>>,
    diff |-> <<>>,
    stats |-> [ added |-> 0, removed |-> 0, changed |-> 0, unchanged |-> 0,
                similarity_weighted |-> 0, total_chars |-> 0 ] ]

\* what the task submitted for task tuple t returns
run_task(t) == compare_page_worker(t.page_num, t.dev_lines, t.prod_lines)

\* the futures of a task list: future_to_page, each future with the tuple
\* its worker returns
submit_all(ts) == [p \in { ts[k].page_num : k \in 1..Len(ts) } |-> run_task(ts[p + 1])]

\* future.result() for the future of page p
task_result(p) == futures[p]

\* f with key k bound to v (results[page_num] = ...)
Put(f, k, v) == [x \in DOMAIN f \cup {k} |-> IF x = k THEN v ELSE f[x]]

Errors == Cardinality({p \in DOMAIN outcome : outcome[p] # "ok"})

\* compare(), up to the fail-fast test: load both files and count pages
compare_load ==
  /\ pc = "load"
  /\ dev_pages' = load_pages("dev" \in unreadable, dev_file, page_lines)
  /\ prod_pages' = load_pages("prod" \in unreadable, prod_file, page_lines)
  /\ IF dev_pages' = <<>> /\ prod_pages' = <<>>
     THEN /\ pc' = "done"
          /\ returned' = [report_path |-> "", analytics |-> <<>>]
     ELSE /\ pc' = "compare"
          /\ UNCHANGED returned
  /\ UNCHANGED << app_state, runner, emitted, summary,
                  dev_file, prod_file, unreadable, first_run, worker, writes, page_lines, written,
                  tasks, futures, pending, results, outcome,
                  order, completed_count, total_chars, progress_log, warnings,
                  page_diffs, precalc, analytics >>

\* compare_pages_streaming up to the as_completed loop: counters set to 0,
\* tasks prepared, one future submitted per task
submit_tasks ==
  /\ pc = "compare"
  /\ tasks' = prepare_tasks(dev_pages, prod_pages)
  /\ futures' = submit_all(tasks')
  /\ pending' = DOMAIN futures'
  /\ results' = <<>>
  /\ writes' = <<>>
  /\ completed_count' = 0
  /\ total_chars' = 0
  /\ pc' = "collect"
  /\ UNCHANGED << app_state, runner, emitted, summary,
                  dev_file, prod_file, unreadable, first_run, worker, page_lines, written,
                  dev_pages, prod_pages, outcome,
                  order, progress_log, warnings, page_diffs, precalc, analytics,
                  returned >>

\* mutant: the report is made before the count is raised
report_progress_stale ==
  /\ completed_count' = completed_count + 1
  /\ progress_log' = Append(progress_log, <<completed_count, Len(tasks)>>)

\* the progress update under progress_lock: count, then report
report_progress ==
  /\ completed_count' = completed_count + 1
  /\ progress_log' = Append(progress_log, <<completed_count + 1, Len(tasks)>>)

\* mutant: the result is stored under its arrival position, not its page_num
unpack_and_store_by_arrival(r) ==
  /\ total_chars' = r.total_chars
  /\ results' = Put(results, completed_count, result_entry(r))

\* the unpacking of future.result() into the locals (total_chars among
\* them) and the store into results
unpack_and_store(r) ==
  /\ total_chars' = r.total_chars
  /\ results' = Put(results, r.page_num, result_entry(r))

\* the except branch: print the warning, store the empty entry
store_empty(p) ==
  /\ results' = Put(results, p, empty_entry(p))
  /\ warnings' = Append(warnings, p + 1)

\* one iteration of the as_completed loop, try branch: the result tuple is
\* unpacked, stored, and progress reported
task_completed(p) ==
  /\ pc = "collect"
  /\ p \in pending
  /\ unpack_and_store(task_result(p))
  /\ writes' = Put(writes, p, 1)
  /\ report_progress
  /\ pending' = pending \ {p}
  /\ outcome' = Put(outcome, p, "ok")
  /\ order' = Append(order, p)
  /\ UNCHANGED << app_state, runner, emitted, summary,
                  dev_file, prod_file, unreadable, first_run, worker, page_lines, written,
                  pc, dev_pages, prod_pages, tasks, futures,
                  warnings, page_diffs, precalc, analytics, returned >>

\* one iteration, future.result() raises: the except branch runs, nothing
\* else of the try branch does
task_raised(p) ==
  /\ pc = "collect"
  /\ p \in pending
  /\ Errors < MaxErrors
  /\ store_empty(p)
  /\ writes' = Put(writes, p, 1)
  /\ pending' = pending \ {p}
  /\ outcome' = Put(outcome, p, "error")
  /\ order' = Append(order, p)
  /\ UNCHANGED << app_state, runner, emitted, summary,
                  dev_file, prod_file, unreadable, first_run, worker, page_lines, written,
                  pc, dev_pages, prod_pages, tasks, futures,
                  completed_count, total_chars, progress_log, page_diffs, precalc,
                  analytics, returned >>

\* one iteration, the result arrives and is stored but progress_cb raises
\* inside the try: the except branch replaces the stored entry, the second
\* assignment to results[page_num] of the iteration
progress_cb_raised(p) ==
  /\ pc = "collect"
  /\ p \in pending
  /\ Errors < MaxErrors
  /\ total_chars' = task_result(p).total_chars
  /\ report_progress
  /\ store_empty(p)
  /\ writes' = Put(writes, p, 2)
  /\ pending' = pending \ {p}
  /\ outcome' = Put(outcome, p, "cb_error")
  /\ order' = Append(order, p)
  /\ UNCHANGED << app_state, runner, emitted, summary,
                  dev_file, prod_file, unreadable, first_run, worker, page_lines, written,
                  pc, dev_pages, prod_pages, tasks, futures,
                  page_diffs, precalc, analytics, returned >>

RECURSIVE GCD(_, _)
GCD(x, y) == IF y = 0 THEN x ELSE GCD(y, x % y)

\* a ratio q reduced by g, so that equal ratios are equal pairs
Reduce(q, g) == IF g = 0 THEN q ELSE << q[1] \div g, q[2] \div g >>

Normalize(q) == Reduce(q, GCD(q[1], q[2]))

\* len("".join(lines).split()): the maximal runs of non-space characters
RECURSIVE count_words(_, _)
count_words(content, inside) ==
  IF content = <<>> THEN 0
  ELSE (IF IsSpace(Head(content)) \/ inside THEN 0 ELSE 1)
         + count_words(Tail(content), ~IsSpace(Head(content)))

\* one pass of the loop body: the page's entry appended to page_diffs, its
\* stats added to the running totals
fold_step(acc, result) ==
  [ page_diffs |-> Append(acc.page_diffs,
                     [ page_num |-> result.page_num,
                       dev_lines |-> result.dev_lines,
                       prod_lines |-> result.prod_lines,
                       diff |-> result.diff ]),
    total_added |-> acc.total_added + result.stats.added,
    total_removed |-> acc.total_removed + result.stats.removed,
    total_changed |-> acc.total_changed + result.stats.changed,
    total_unchanged |-> acc.total_unchanged + result.stats.unchanged,
    matching_chars |-> acc.matching_chars + result.stats.similarity_weighted,
    total_chars |-> acc.total_chars + result.stats.total_chars ]

\* the loop "for page_num in range(max_pages): if page_num in results"
RECURSIVE fold_results(_, _, _, _)
fold_results(res, page_num, max_pages, acc) ==
  IF page_num >= max_pages THEN acc
  ELSE fold_results(res, page_num + 1, max_pages,
                    IF page_num \in DOMAIN res THEN fold_step(acc, res[page_num]) ELSE acc)

\* the totals the fold starts from: the counters set to 0 at the top of
\* compare_pages_streaming, page_diffs and the local total_chars as they are
start_totals(old_diffs, start_chars) ==
  [ page_diffs |-> old_diffs, total_added |-> 0, total_removed |-> 0,
    total_changed |-> 0, total_unchanged |-> 0, matching_chars |-> 0,
    total_chars |-> start_chars ]

\* every step-th element of s, from the first: s[::step]
Sample(s, step) == [k \in 1..((Len(s) + step - 1) \div step) |-> s[(k - 1) * step + 1]]

WordSampleStep == 10

\* sum(len("".join(page_diff[side])) for page_diff in pd)
RECURSIVE side_chars(_, _)
side_chars(pd, side) ==
  IF pd = <<>> THEN 0 ELSE Len(Join(Head(pd)[side])) + side_chars(Tail(pd), side)

\* sum(len("".join(page_diff[side]).split()) for page_diff in sampled)
RECURSIVE side_words(_, _)
side_words(sampled, side) ==
  IF sampled = <<>> THEN 0
  ELSE count_words(Join(Head(sampled)[side]), FALSE) + side_words(Tail(sampled), side)

\* int(words * sampling_ratio), sampling_ratio = len(pd) / max(len(pd[::10]), 1)
estimate_words(pd, sampled, side) ==
  (side_words(sampled, side) * Len(pd)) \div Max(Len(sampled), 1)

\* matching_chars / total_chars if total_chars > 0 else 1.0
similarity_ratio(matching, total) ==
  IF total > 0 THEN Normalize(<< matching, total >>) ELSE << 1, 1 >>

\* the self._precalc_* fields computed from the folded totals
precalc_fields(acc) ==
  [ changes |-> [ added |-> acc.total_added, removed |-> acc.total_removed,
                  modified |-> acc.total_changed, unchanged |-> acc.total_unchanged ],
    similarity_ratio |-> similarity_ratio(acc.matching_chars, acc.total_chars),
    matching_chars |-> acc.matching_chars,
    total_chars |-> acc.total_chars,
    dev_chars |-> side_chars(acc.page_diffs, "dev_lines"),
    prod_chars |-> side_chars(acc.page_diffs, "prod_lines"),
    dev_words |-> estimate_words(acc.page_diffs, Sample(acc.page_diffs, WordSampleStep), "dev_lines"),
    prod_words |-> estimate_words(acc.page_diffs, Sample(acc.page_diffs, WordSampleStep), "prod_lines") ]

\* the part of compare_pages_streaming after the pool: res is results,
\* start_chars the value the local total_chars holds when the fold starts,
\* old_diffs the page_diffs list appended to
aggregate(res, max_pages, start_chars, old_diffs) ==
  fold_results(res, 0, max_pages, start_totals(old_diffs, start_chars))

store_aggregate(acc) ==
  /\ page_diffs' = acc.page_diffs
  /\ total_chars' = acc.total_chars
  /\ precalc' = precalc_fields(acc)

\* the end of compare_pages_streaming once every future was handled
aggregate_results ==
  /\ pc = "collect"
  /\ pending = {}
  /\ store_aggregate(aggregate(results, Len(tasks), total_chars, page_diffs))
  /\ pc' = "analytics"
  /\ UNCHANGED << app_state, runner, emitted, summary,
                  dev_file, prod_file, unreadable, first_run, worker, writes, page_lines, written,
                  dev_pages, prod_pages, tasks, futures,
                  pending, results, outcome, order, completed_count, progress_log,
                  warnings, analytics, returned >>

(* -------------------- TXTComparator.calculate_analytics --------------- *)
(* timestamp, file names and file sizes are left out: they come from the   *)
(* clock and the file system.                                              *)

AbsDiff(x, y) == IF x >= y THEN x - y ELSE y - x

\* sum(len(page_diff[side]) for page_diff in pd)
RECURSIVE side_lines(_, _)
side_lines(pd, side) ==
  IF pd = <<>> THEN 0 ELSE Len(Head(pd)[side]) + side_lines(Tail(pd), side)

\* a {'dev', 'prod', 'max'} entry
dev_prod_max(d, p) == [ dev |-> d, prod |-> p, max |-> Max(d, p) ]

\* a {'dev', 'prod', 'diff'} entry
dev_prod_diff(d, p) == [ dev |-> d, prod |-> p, diff |-> AbsDiff(d, p) ]

calculate_analytics(pre, pd, dev_page_count, prod_page_count) ==
  [ similarity_ratio |-> pre.similarity_ratio,
    similarity_percent |-> (100 * pre.similarity_ratio[1]) \div pre.similarity_ratio[2],
    difference_percent |-> (100 * pre.similarity_ratio[2] - 100 * pre.similarity_ratio[1])
                             \div pre.similarity_ratio[2],
    total_pages |-> dev_prod_max(dev_page_count, prod_page_count),
    total_lines |-> dev_prod_max(side_lines(pd, "dev_lines"), side_lines(pd, "prod_lines")),
    changes |-> pre.changes,
    characters |-> dev_prod_diff(pre.dev_chars, pre.prod_chars),
    words |-> dev_prod_diff(pre.dev_words, pre.prod_words) ]

\* compare() after compare_pages_streaming: analytics, report, return
compare_finish ==
  /\ pc = "analytics"
  /\ analytics' = calculate_analytics(precalc, page_diffs, Len(dev_pages), Len(prod_pages))
  /\ written' = {"html", "json"}
  /\ returned' = [report_path |-> "report", analytics |-> analytics']
  /\ pc' = "done"
  /\ UNCHANGED << app_state, runner, emitted, summary,
                  dev_file, prod_file, unreadable, first_run, worker, writes, page_lines,
                  dev_pages, prod_pages, tasks, futures,
                  pending, results, outcome, order, completed_count, total_chars,
                  progress_log, warnings, page_diffs, precalc >>

Next ==
  \/ compare_load
  \/ submit_tasks
  \/ \E p \in pending : task_completed(p)
  \/ \E p \in pending : task_raised(p)
  \/ \E p \in pending : progress_cb_raised(p)
  \/ aggregate_results
  \/ compare_finish

Spec == Init /\ [][Next]_vars

\* a new TXTComparator is constructed and compare() is about to run on it
new_comparator ==
  /\ pc' = "load"
  /\ dev_pages' = <<>>
  /\ prod_pages' = <<>>
  /\ tasks' = <<>>
  /\ futures' = <<>>
  /\ pending' = {}
  /\ results' = <<>>
  /\ writes' = <<>>
  /\ outcome' = <<>>
  /\ order' = <<>>
  /\ completed_count' = 0
  /\ total_chars' = 0
  /\ progress_log' = <<>>
  /\ warnings' = <<>>
  /\ page_diffs' = <<>>
  /\ precalc' = NoValue
  /\ analytics' = NoValue
  /\ returned' = NoValue

\* the comparison is run once more on the same files with the same page size
run_again ==
  /\ pc = "done"
  /\ returned.report_path # ""
  /\ first_run = NoValue
  /\ first_run' = [analytics |-> returned.analytics, outcome |-> outcome]
  /\ new_comparator
  /\ UNCHANGED << app_state, runner, emitted, summary,
                  dev_file, prod_file, unreadable, page_lines, written, worker >>

NextTwice ==
  \/ Next
  \/ run_again

SpecTwice == Init /\ [][NextTwice]_vars

(* ------------------------- ComparisonWorker --------------------------- *)
(* The runner screen starts the worker thread, which compares the file     *)
(* pairs of its mappings one after the other, each with a new comparator,  *)
(* and then generates the summary; its signals reach the slots of the      *)
(* runner screen through the event queue of the UI thread.  The cancel     *)
(* button is clicked at any moment while the thread runs.  The mappings    *)
(* all name the same pair of files.  Here the submission of the unit tasks *)
(* is followed one executor.submit call at a time.                         *)

\* number of file mappings of a worker run
MaxMappings == 2

\* AppState.set_file_type
set_file_type(app, file_type) ==
  IF file_type \in { "pdf", "excel", "txt" }
  THEN [app EXCEPT !.selected_file_type = file_type]
  ELSE app

\* AppState.start_comparison: the status, and the new session with the
\* status a ComparisonSession is created with
start_comparison(app, session_id) ==
  [app EXCEPT !.comparison_status = "RUNNING",
              !.current_session =
                 [ session_id |-> session_id, status |-> "IDLE",
                   master_summary_path |-> None, errors |-> <<>> ]]

\* AppState.complete_comparison
complete_comparison(app, master_summary_path) ==
  IF app.current_session # NoValue
  THEN [app EXCEPT !.comparison_status = "COMPLETED",
                   !.master_summary_path = master_summary_path,
                   !.current_session.status = "COMPLETED",
                   !.current_session.master_summary_path = master_summary_path,
                   !.recent_sessions =
                      SubSeq(<< app.current_session.session_id >> \o @, 1,
                             Min(10, Len(@) + 1))]
  ELSE [app EXCEPT !.comparison_status = "COMPLETED",
                   !.master_summary_path = master_summary_path]

\* AppState.cancel_comparison
cancel_comparison(app) ==
  IF app.current_session # NoValue
  THEN [app EXCEPT !.comparison_status = "CANCELLED",
                   !.current_session.status = "CANCELLED"]
  ELSE [app EXCEPT !.comparison_status = "CANCELLED"]

\* AppState.set_comparison_error
set_comparison_error(app, error_message) ==
  IF app.current_session # NoValue
  THEN [app EXCEPT !.comparison_status = "ERROR",
                   !.current_session.status = "ERROR",
                   !.current_session.errors = Append(@, error_message)]
  ELSE [app EXCEPT !.comparison_status = "ERROR"]

\* the fields of a comparator and the locals of its compare()
comparator_vars ==
  << pc, dev_pages, prod_pages, tasks, futures, pending, results, writes, outcome,
     order, completed_count, total_chars, progress_log, warnings, page_diffs,
     precalc, analytics, returned >>

\* the files and the page size of the comparators, and the second-run record
inputs == << dev_file, prod_file, unreadable, page_lines, first_run >>

\* a signal of the worker as emitted
Signal(name, index, status) == [ signal |-> name, index |-> index, status |-> status ]

\* the signals that end a run
IsTerminal(sig) == sig.signal \in { "comparison_complete", "comparison_error" }

\* signal.emit for each of sigs: the connections to the runner's slots are
\* queued, the slots of the two ending signals are followed
emit(sigs) ==
  /\ emitted' = emitted \o sigs
  /\ runner' = [runner EXCEPT !.queue = @ \o SelectSeq(sigs, IsTerminal)]

\* QThread.isRunning
isRunning(w) == w.at \notin { "idle", "finished" }

\* the file type selector screen sets the selected type
select_file_type(file_type) ==
  /\ worker.at = "idle"
  /\ app_state.selected_file_type = None
  /\ app_state' = set_file_type(app_state, file_type)
  /\ UNCHANGED << runner, emitted, summary, worker, written, inputs, comparator_vars >>

\* ComparisonRunnerScreen._start_comparison: the worker is created and
\* started, AppState is told
start_worker ==
  /\ worker.at = "idle"
  /\ app_state.selected_file_type # None
  /\ worker' = [ComparisonWorker_init EXCEPT !.at = "start"]
  /\ app_state' = start_comparison(app_state, 1)
  /\ UNCHANGED << runner, emitted, summary, written, inputs, comparator_vars >>

\* the message comparison_error is emitted with before the loop, "" when
\* the loop is entered: loaded is what _load_csv_mappings returns, mappings
\* the number of rows it read, valid the number _validate_files keeps,
\* raises whether _validate_files raises
load_error(loaded, mappings, valid, raises) ==
  IF ~loaded THEN "Failed to load CSV mappings"
  ELSE IF mappings = 0 THEN "No valid file mappings found in CSV"
  ELSE IF raises THEN "Critical error in comparison worker"
  ELSE IF valid = 0 THEN "No valid file pairs found to compare"
  ELSE ""

\* what _validate_files emits
skipped(loaded, mappings, valid, raises) ==
  IF loaded /\ mappings > 0 /\ ~raises /\ valid < mappings
  THEN << Signal("skipped_mappings", mappings - valid, "") >>
  ELSE <<>>

\* run() up to the loop: the mappings are loaded and validated
load_mappings(loaded, mappings, valid, raises) ==
  /\ worker.at = "start"
  /\ IF load_error(loaded, mappings, valid, raises) # ""
     THEN /\ emit(skipped(loaded, mappings, valid, raises)
                    \o << Signal("comparison_error", 0,
                                 load_error(loaded, mappings, valid, raises)) >>)
          /\ worker' = [worker EXCEPT !.at = "finished"]
     ELSE /\ emit(skipped(loaded, mappings, valid, raises))
          /\ worker' = [worker EXCEPT !.at = "loop", !.total_files = valid, !.idx = 1]
  /\ UNCHANGED << app_state, summary, written, inputs, comparator_vars >>

\* positional arguments the worker passes to the comparator of a file type
PassedArgs == [ pdf |-> 3, excel |-> 4, txt |-> 4 ]

\* positional parameters the __init__ of the comparator accepts
AcceptedArgs == [ pdf |-> 3, excel |-> 3, txt |-> 5 ]

\* the construction of the comparator raises: too many arguments, or the
\* mkdir of the output folder fails
construct_raises(file_type, mkdir_raises) ==
  PassedArgs[file_type] > AcceptedArgs[file_type] \/ mkdir_raises

\* the dict emitted by the except branch of the loop body
error_info(idx) == Signal("file_completed", idx, "error")

\* the head of the loop over the mappings and the construction of the
\* comparator: the loop ends after the last mapping, run() returns when
\* the flag is set, else progress is emitted and the comparator made
loop_head(mkdir_raises) ==
  /\ worker.at = "loop"
  /\ IF worker.idx > worker.total_files
     THEN /\ worker' = [worker EXCEPT !.at = "after_loop"]
          /\ UNCHANGED << emitted, runner, comparator_vars >>
     ELSE IF worker.is_cancelled
     THEN /\ worker' = [worker EXCEPT !.at = "finished", !.observed_cancel = TRUE]
          /\ UNCHANGED << emitted, runner, comparator_vars >>
     ELSE IF construct_raises(app_state.selected_file_type, mkdir_raises)
     THEN /\ emit(<< Signal("progress_updated", worker.idx, ""), error_info(worker.idx) >>)
          /\ worker' = [worker EXCEPT
                          !.idx = worker.idx + 1,
                          !.env_errors = IF mkdir_raises THEN @ \cup { worker.idx } ELSE @]
          /\ UNCHANGED comparator_vars
     ELSE /\ emit(<< Signal("progress_updated", worker.idx, "") >>)
          /\ worker' = [worker EXCEPT
                          !.at = "comparing",
                          !.constructed =
                             Append(@, [ index |-> worker.idx,
                                         comparator |-> app_state.selected_file_type ])]
          /\ new_comparator
  /\ UNCHANGED << app_state, summary, written, inputs >>

\* the comparator of the worker's file type is inside compare()
comparing(file_type) ==
  /\ worker.at = "comparing"
  /\ app_state.selected_file_type = file_type

\* s.strip() is empty
RECURSIVE IsBlank(_)
IsBlank(s) == s = <<>> \/ (IsSpace(Head(s)) /\ IsBlank(Tail(s)))

\* PDFComparator.extract_text_by_page: the text of every page, "" for a
\* page of white space, [] when the document cannot be opened
extract_text_by_page(raises, document) ==
  IF raises THEN <<>>
  ELSE [k \in 1..Len(document) |-> IF IsBlank(document[k]) THEN <<>> ELSE document[k]]

\* what PDFComparator.compare returns for the extracted pages; of the
\* analytics only the page counts are followed, the worker hands them on
\* unread
pdf_returned(dp, pp) ==
  IF dp = <<>> /\ pp = <<>>
  THEN [ report_path |-> "", analytics |-> <<>> ]
  ELSE [ report_path |-> "report",
         analytics |-> [ total_pages |-> dev_prod_max(Len(dp), Len(pp)) ] ]

\* PDFComparator.compare, the files taken as lists of page texts
pdf_compare ==
  /\ comparing("pdf")
  /\ pc = "load"
  /\ dev_pages' = extract_text_by_page("dev" \in unreadable, dev_file)
  /\ prod_pages' = extract_text_by_page("prod" \in unreadable, prod_file)
  /\ returned' = pdf_returned(dev_pages', prod_pages')
  /\ written' = IF returned'.report_path # "" THEN { "html", "json" } ELSE written
  /\ pc' = "done"
  /\ UNCHANGED << app_state, runner, emitted, summary, worker, inputs, tasks, futures,
                  pending, results, writes, outcome, order, completed_count, total_chars,
                  progress_log, warnings, page_diffs, precalc, analytics >>

\* ComparisonWorker.cancel
cancel(w) ==
  [w EXCEPT !.is_cancelled = TRUE, !.submitted_at_cancel = w.submitted]

\* compare_pages_streaming up to the pool: counters set to 0, tasks prepared
prepare_units ==
  /\ comparing("txt")
  /\ pc = "compare"
  /\ tasks' = prepare_tasks(dev_pages, prod_pages)
  /\ futures' = <<>>
  /\ results' = <<>>
  /\ writes' = <<>>
  /\ completed_count' = 0
  /\ total_chars' = 0
  /\ pc' = "submit"
  /\ UNCHANGED << app_state, runner, emitted, summary,
                  dev_file, prod_file, unreadable, written, first_run, worker,
                  page_lines, dev_pages, prod_pages, pending, outcome, order,
                  progress_log, warnings, page_diffs, precalc, analytics, returned >>

\* the next unit the comprehension over tasks submits
next_unit == Cardinality(DOMAIN futures)

\* one executor.submit call of the comprehension over tasks; after the
\* last one the as_completed loop starts
submit_unit ==
  /\ comparing("txt")
  /\ pc = "submit"
  /\ next_unit < Len(tasks)
  /\ futures' = Put(futures, next_unit, run_task(tasks[next_unit + 1]))
  /\ worker' = [worker EXCEPT !.submitted = worker.submitted + 1]
  /\ IF next_unit + 1 = Len(tasks)
     THEN pc' = "collect" /\ pending' = DOMAIN futures'
     ELSE UNCHANGED << pc, pending >>
  /\ UNCHANGED << app_state, runner, emitted, summary,
                  dev_file, prod_file, unreadable, written, first_run, writes, page_lines,
                  dev_pages, prod_pages, tasks, results, outcome, order,
                  completed_count, total_chars, progress_log, warnings, page_diffs,
                  precalc, analytics, returned >>

\* the file_info appended for a comparison that returned a report
file_info(idx, ret) == [ index |-> idx, report_path |-> ret.report_path, status |-> "success" ]

\* comparison_results after compare() returned ret for mapping idx
with_result(res, idx, ret) ==
  IF ret.report_path # "" THEN Append(res, file_info(idx, ret)) ELSE res

\* what the loop body emits after compare() returned ret
completed_signals(idx, ret) ==
  IF ret.report_path # ""
  THEN << Signal("file_completed", idx, file_info(idx, ret).status) >>
  ELSE <<>>

\* the worker after compare() returned: the result recorded, the loop goes
\* on to the next mapping
after_compare(w, ret) ==
  [w EXCEPT !.comparison_results = with_result(@, w.idx, ret),
            !.idx = w.idx + 1,
            !.at = "loop"]

\* del comparator: the fields of the comparator are gone
del_comparator ==
  /\ pc' = "deleted"
  /\ dev_pages' = <<>>
  /\ prod_pages' = <<>>
  /\ tasks' = <<>>
  /\ futures' = <<>>
  /\ pending' = {}
  /\ results' = <<>>
  /\ writes' = <<>>
  /\ outcome' = <<>>
  /\ order' = <<>>
  /\ completed_count' = 0
  /\ total_chars' = 0
  /\ progress_log' = <<>>
  /\ warnings' = <<>>
  /\ page_diffs' = <<>>
  /\ precalc' = NoValue
  /\ analytics' = NoValue
  /\ returned' = NoValue

\* compare() has returned: a report is recorded and file_completed is
\* emitted for it, without a report only the log is written; then the
\* comparator is deleted
compare_returned ==
  /\ worker.at = "comparing"
  /\ pc = "done"
  /\ emit(completed_signals(worker.idx, returned))
  /\ worker' = after_compare(worker, returned)
  /\ del_comparator
  /\ UNCHANGED << app_state, summary, written, inputs >>

\* compare() raises while the report is generated and written: the except
\* branch of the loop body emits file_completed with status 'error'; the
\* comparator is not used again
compare_raised ==
  /\ worker.at = "comparing"
  /\ \/ app_state.selected_file_type = "txt" /\ pc = "analytics"
     \/ app_state.selected_file_type = "pdf" /\ pc = "load"
  /\ emit(<< error_info(worker.idx) >>)
  /\ worker' = [worker EXCEPT !.idx = worker.idx + 1, !.at = "loop",
                              !.env_errors = @ \cup { worker.idx }]
  /\ del_comparator
  /\ UNCHANGED << app_state, summary, written, inputs >>

\* the check of the flag after the loop
after_loop ==
  /\ worker.at = "after_loop"
  /\ worker' = IF worker.is_cancelled
               THEN [worker EXCEPT !.at = "finished", !.observed_cancel = TRUE]
               ELSE [worker EXCEPT !.at = "summary"]
  /\ UNCHANGED << app_state, runner, emitted, summary, written, inputs, comparator_vars >>

\* mutant: a summary that could not be generated ends the run silently
summary_signals_silent(summary_path) ==
  IF summary_path # "" THEN << Signal("comparison_complete", 0, summary_path) >>
  ELSE <<>>

\* what run() emits for the path _generate_summary returned
summary_signals(summary_path) ==
  IF summary_path # "" THEN << Signal("comparison_complete", 0, summary_path) >>
  ELSE << Signal("comparison_error", 0, "Failed to generate master summary") >>

\* the paths _generate_summary may return: that of the summary written, or
\* "" when the generator of the file type found nothing to summarize or
\* raised
SummaryPaths == { "", "MASTER_SUMMARY" }

\* the end of run(): the summary is generated and the run's last signal
\* emitted
generate_summary(summary_path) ==
  /\ worker.at = "summary"
  /\ emit(summary_signals(summary_path))
  /\ worker' = [worker EXCEPT !.at = "finished"]
  /\ UNCHANGED << app_state, summary, written, inputs, comparator_vars >>

\* ComparisonRunnerScreen._on_cancel_clicked while the worker runs, up to
\* worker.wait()
on_cancel_clicked ==
  /\ runner.at = "idle"
  /\ isRunning(worker)
  /\ worker' = cancel(worker)
  /\ runner' = [runner EXCEPT !.at = "waiting"]
  /\ UNCHANGED << app_state, emitted, summary, written, inputs, comparator_vars >>

\* _on_cancel_clicked after worker.wait() returned
cancel_finished ==
  /\ runner.at = "waiting"
  /\ worker.at = "finished"
  /\ app_state' = cancel_comparison(app_state)
  /\ runner' = [runner EXCEPT !.at = "idle", !.cancel_handled = TRUE]
  /\ UNCHANGED << worker, emitted, summary, written, inputs, comparator_vars >>

\* AppState after the slot of the queued signal has run:
\* _on_comparison_complete or _on_comparison_error
slot(app, sig) ==
  IF sig.signal = "comparison_complete"
  THEN complete_comparison(app, sig.status)
  ELSE set_comparison_error(app, sig.status)

\* the event loop of the UI thread delivers the next queued signal
deliver_signal ==
  /\ runner.at = "idle"
  /\ runner.queue # <<>>
  /\ app_state' = slot(app_state, Head(runner.queue))
  /\ runner' = [runner EXCEPT !.queue = Tail(@)]
  /\ UNCHANGED << worker, emitted, summary, written, inputs, comparator_vars >>

NextWorker ==
  \/ \E file_type \in { "pdf", "excel", "txt" } : select_file_type(file_type)
  \/ start_worker
  \/ \E loaded \in BOOLEAN, mappings \in 0..MaxMappings, raises \in BOOLEAN :
       \E valid \in 0..mappings : load_mappings(loaded, mappings, valid, raises)
  \/ \E mkdir_raises \in BOOLEAN : loop_head(mkdir_raises)
  \/ pdf_compare
  \/ comparing("txt") /\ compare_load
  \/ prepare_units
  \/ submit_unit
  \/ comparing("txt") /\ \E p \in pending : task_completed(p)
  \/ comparing("txt") /\ \E p \in pending : task_raised(p)
  \/ comparing("txt") /\ \E p \in pending : progress_cb_raised(p)
  \/ comparing("txt") /\ aggregate_results
  \/ comparing("txt") /\ compare_finish
  \/ compare_returned
  \/ compare_raised
  \/ after_loop
  \/ \E summary_path \in SummaryPaths : generate_summary(summary_path)
  \/ on_cancel_clicked
  \/ cancel_finished
  \/ deliver_signal

\* the files of the worker runs: up to MaxLines lines, all the same line
WorkerFiles == SeqsUpTo({ << "x", NL >> }, MaxLines)

InitWorker == InitFrom(WorkerFiles)

SpecWorker == InitWorker /\ [][NextWorker]_vars

\* the same program on the files of the hint-line runs
SpecHints == InitHints /\ [][Next]_vars

(* ----------------------------- navigation ----------------------------- *)
(* The screens navigate through the signals navigate_to_screen and go_back *)
(* that MainWindow handles; AppState.navigate_to and AppState.go_back are  *)
(* also called on their own.                                               *)

\* longest screen history followed
MaxHistory == 4

\* everything but app_state
not_app_state ==
  << runner, emitted, summary, dev_file, prod_file, unreadable, written, first_run,
     worker, writes, page_lines, pc, dev_pages, prod_pages, tasks, futures, pending,
     results, outcome, order, completed_count, total_chars, progress_log, warnings,
     page_diffs, precalc, analytics, returned >>

\* signals.navigate_to_screen.emit(screen_name), handled by MainWindow
navigate_to_screen(screen_name) ==
  /\ Len(app_state.screen_history) < MaxHistory
  /\ app_state' = MainWindow_navigate_to_screen(app_state, screen_name)
  /\ UNCHANGED not_app_state

\* signals.go_back.emit(), handled by MainWindow
go_back_signal ==
  /\ app_state' = MainWindow_go_back(app_state)
  /\ UNCHANGED not_app_state

\* a call of app_state.navigate_to
call_navigate_to(screen_name) ==
  /\ Len(app_state.screen_history) < MaxHistory
  /\ app_state' = navigate_to(app_state, screen_name)
  /\ UNCHANGED not_app_state

\* a call of app_state.go_back
call_go_back ==
  /\ app_state' = go_back(app_state).app
  /\ UNCHANGED not_app_state

NextNav ==
  \/ \E screen_name \in Screens : navigate_to_screen(screen_name)
  \/ go_back_signal
  \/ \E screen_name \in Screens : call_navigate_to(screen_name)
  \/ call_go_back

\* the application before any comparison: no files, nothing to summarize
InitNav == InitWith({ <<>> }, { {} }, { 1 }, { <<>> })

SpecNav == InitNav /\ [][NextNav]_vars


(* ------------ TxtSummaryGenerator.calculate_aggregate_stats ----------- *)
(* The generator has loaded the analytics snapshots of a reports folder;   *)
(* the timestamp of the statistics is left out.                            *)

\* most snapshots loaded
MaxSnapshots == 2

\* the similarity percentages of the snapshots: the ends of the range and
\* both sides of every bucket border
PercentSamples == { 0, 69, 70, 89, 90, 99, 100 }

\* an analytics snapshot as compare() saves it, of a comparison with the
\* given percentage and number of added lines
Snapshot(percent, added) ==
  [ similarity_ratio |-> << percent, 100 >>,
    similarity_percent |-> percent,
    changes |-> [ added |-> added, removed |-> 0, modified |-> 0, unchanged |-> 1 ],
    total_lines |-> [ dev |-> 1, prod |-> 1 + added ],
    characters |-> [ dev |-> 2, prod |-> 2 + 2 * added ] ]

Snapshots == { Snapshot(percent, added) : percent \in PercentSamples, added \in 0..1 }

\* sum(f(a) for a in data)
RECURSIVE SumOver(_, _, _)
SumOver(data, group, field) ==
  IF data = <<>> THEN 0 ELSE Head(data)[group][field] + SumOver(Tail(data), group, field)

\* the sum of two ratios
AddRatio(x, y) == << x[1] * y[2] + y[1] * x[2], x[2] * y[2] >>

\* sum(a.get('similarity_ratio', ...) for a in data)
RECURSIVE SumRatios(_)
SumRatios(data) ==
  IF data = <<>> THEN << 0, 1 >>
  ELSE AddRatio(Head(data).similarity_ratio, SumRatios(Tail(data)))

\* sum(1 for a in data if lo <= a['similarity_percent'] < hi)
RECURSIVE CountPercent(_, _, _)
CountPercent(data, lo, hi) ==
  IF data = <<>> THEN 0
  ELSE (IF lo <= Head(data).similarity_percent /\ Head(data).similarity_percent < hi
        THEN 1 ELSE 0)
         + CountPercent(Tail(data), lo, hi)

\* mutant: the borders 70 and 90 belong to no bucket
similarity_buckets_open(data) ==
  [ identical |-> CountPercent(data, 100, 101),
    high |-> CountPercent(data, 91, 100),
    medium |-> CountPercent(data, 71, 90),
    low |-> CountPercent(data, -1, 70) ]

\* identical, high_similarity, medium_similarity, low_similarity; the
\* percentages are integers of at most 100, so == 100 is 100 <= p < 101
\* and p < 70 is -1 <= p < 70 for the percentages from 0 on
similarity_buckets(data) ==
  [ identical |-> CountPercent(data, 100, 101),
    high |-> CountPercent(data, 90, 100),
    medium |-> CountPercent(data, 70, 90),
    low |-> CountPercent(data, -1, 70) ]

\* x['changes']['added'] + x['changes']['removed'] + x['changes']['modified']
change_volume(a) == a.changes.added + a.changes.removed + a.changes.modified

\* a inserted into the sorted list after the elements that sort before it
\* or equal to it (sorted() is stable)
RECURSIVE Insert(_, _, _, _)
Insert(sorted, a, key, sign) ==
  IF sorted = <<>> THEN << a >>
  ELSE IF sign * Head(sorted)[key] <= sign * a[key]
    THEN << Head(sorted) >> \o Insert(Tail(sorted), a, key, sign)
  ELSE << a >> \o sorted

\* sorted(data, key=...) with sign 1, sorted(..., reverse=True) with -1
RECURSIVE Sorted(_, _, _)
Sorted(data, key, sign) ==
  IF data = <<>> THEN <<>>
  ELSE Insert(Sorted(SubSeq(data, 1, Len(data) - 1), key, sign), data[Len(data)], key, sign)

\* data with the change volume of every snapshot attached as sort key
with_volume(data) ==
  [k \in 1..Len(data) |-> [ volume |-> change_volume(data[k]), snapshot |-> data[k] ]]

\* s[:n]
Prefix(s, n) == SubSeq(s, 1, Min(n, Len(s)))

\* the snapshots of a keyed list
snapshots_of(keyed) == [k \in 1..Len(keyed) |-> keyed[k].snapshot]

\* what calculate_aggregate_stats returns for the snapshots data
aggregate_stats(data) ==
  IF Len(data) = 0 THEN <<>>
  ELSE
    [ total_files |-> Len(data),
      aggregate_changes |->
        [ added |-> SumOver(data, "changes", "added"),
          removed |-> SumOver(data, "changes", "removed"),
          modified |-> SumOver(data, "changes", "modified"),
          unchanged |-> SumOver(data, "changes", "unchanged"),
          total |-> SumOver(data, "changes", "added") + SumOver(data, "changes", "removed")
                      + SumOver(data, "changes", "modified") ],
      similarity |->
        [ average |-> (100 * SumRatios(data)[1]) \div (SumRatios(data)[2] * Len(data)) ]
          @@ similarity_buckets(data),
      lines |-> [ dev |-> SumOver(data, "total_lines", "dev"),
                  prod |-> SumOver(data, "total_lines", "prod") ],
      characters |-> [ dev |-> SumOver(data, "characters", "dev"),
                       prod |-> SumOver(data, "characters", "prod") ],
      top_changed_files |-> Prefix(snapshots_of(Sorted(with_volume(data), "volume", -1)), 5),
      least_similar_files |-> Prefix(Sorted(data, "similarity_percent", 1), 5) ]

\* everything but summary
not_summary ==
  << app_state, runner, emitted, dev_file, prod_file, unreadable, written, first_run,
     worker, writes, page_lines, pc, dev_pages, prod_pages, tasks, futures, pending,
     results, outcome, order, completed_count, total_chars, progress_log, warnings,
     page_diffs, precalc, analytics, returned >>

\* generate_summary calls calculate_aggregate_stats on the loaded snapshots
calculate_aggregate_stats ==
  /\ summary.stats = NoValue
  /\ summary' = [summary EXCEPT !.stats = aggregate_stats(summary.analytics_data)]
  /\ UNCHANGED not_summary

NextSummary == calculate_aggregate_stats

\* the generator after load_analytics, with up to MaxSnapshots snapshots
InitSummary == InitWith({ <<>> }, { {} }, { 1 }, SeqsUpTo(Snapshots, MaxSnapshots))

SpecSummary == InitSummary /\ [][NextSummary]_vars

(* ============================ properties ============================== *)

\* compare_pages_streaming has run to its end
Streamed == precalc # NoValue

\* compare_pages_streaming has just returned to compare
JustStreamed == pc = "analytics"

\* the future of page p was handled and its result arrived and stayed stored
Ok(p) == p \in DOMAIN outcome /\ outcome[p] = "ok"

AllOk == \A p \in DOMAIN outcome : outcome[p] = "ok"

\* page k (1-based) of a side, empty when the side has no such page
PageOf(pages, k) == IF k <= Len(pages) THEN pages[k] ELSE <<>>

\* number of units of the document pair
UnitCount == Max(Len(dev_pages), Len(prod_pages))

\* the least q with q * d >= n
CeilDiv(n, d) == CHOOSE q \in 0..n : q * d >= n /\ (q = 0 \/ (q - 1) * d < n)

\* the Python slice s[lo:hi]
Slice(s, lo, hi) == [k \in 1..(Min(hi, Len(s)) - lo) |-> s[lo + k]]

\* the slices of one side of all units, concatenated in index order
RECURSIVE ConcatSide(_, _)
ConcatSide(ts, side) ==
  IF ts = <<>> THEN <<>> ELSE Head(ts)[side] \o ConcatSide(Tail(ts), side)

\* the tasks were prepared and submitted
Submitted == pc \in {"collect", "analytics", "done"}

\* the tasks were just prepared and submitted, no future was handled yet
Segmented == pc = "collect" /\ order = <<>>

\* the entry is the result of diffing unit page_num
EntryIsDiffOf(entry, page_num, dev_page, prod_page) ==
  /\ entry.page_num = page_num
  /\ entry.diff = Differ_compare(dev_page, prod_page)
  /\ entry.dev_lines = dev_page
  /\ entry.prod_lines = prod_page

\* the entry is the substitute stored for a unit whose handling raised
EntryIsSubstitute(entry) ==
  /\ entry.diff = <<>>
  /\ entry.dev_lines = <<>>
  /\ entry.prod_lines = <<>>

(* C1: when compare_pages_streaming returns, page_diffs has one entry per   *)
(* unit and entry k holds the diff of dev page k against prod page k,       *)
(* whatever the order in which the tasks completed; a unit whose handling   *)
(* raised has the empty substitute at its index.                            *)
C1_ResultsInIndexOrder ==
  JustStreamed =>
    /\ Len(page_diffs) = UnitCount
    /\ \A k \in 1..UnitCount :
         IF Ok(k - 1)
         THEN EntryIsDiffOf(page_diffs[k], k - 1, PageOf(dev_pages, k), PageOf(prod_pages, k))
         ELSE EntryIsSubstitute(page_diffs[k])

\* two units with different diffs, completed in reverse index order
C1_Witness ==
  /\ JustStreamed
  /\ order = <<1, 0>>
  /\ AllOk
  /\ Len(page_diffs) = 2
  /\ page_diffs[1].diff # page_diffs[2].diff

(* C2: segmentation yields ceil(max(n, m) / L) units, and the dev slices of *)
(* the units concatenated in index order give back the dev file, the prod   *)
(* slices the prod file.                                                    *)
C2_Segmentation ==
  Segmented =>
    /\ Len(tasks) = CeilDiv(Max(Len(dev_file), Len(prod_file)), page_lines)
    /\ ConcatSide(tasks, "dev_lines") = dev_file
    /\ ConcatSide(tasks, "prod_lines") = prod_file

\* several units, the sides of different length
C2_Witness ==
  /\ Segmented
  /\ Len(tasks) >= 2
  /\ Len(dev_file) # Len(prod_file)
  /\ dev_file # <<>>

(* C3: unit i pairs dev lines [i*L, i*L+L) with prod lines [i*L, i*L+L); a  *)
(* side with no lines from i*L on gives an empty slice, and the unit still  *)
(* exists and its diff is that of the other side against nothing.           *)
OneSidedDiff(dev_slice, prod_slice) ==
  IF prod_slice = <<>> THEN dump("-", dev_slice, 0, Len(dev_slice))
  ELSE dump("+", prod_slice, 0, Len(prod_slice))

UnitPairsSlices(i) ==
  /\ i < Len(tasks)
  /\ tasks[i + 1].page_num = i
  /\ tasks[i + 1].dev_lines = Slice(dev_file, i * page_lines, i * page_lines + page_lines)
  /\ tasks[i + 1].prod_lines = Slice(prod_file, i * page_lines, i * page_lines + page_lines)
  /\ (Len(dev_file) <= i * page_lines => tasks[i + 1].dev_lines = <<>>)
  /\ (Len(prod_file) <= i * page_lines => tasks[i + 1].prod_lines = <<>>)

\* a unit with an empty side whose result arrived holds the one-sided diff
OneSidedUnitDiffed(i) ==
  (Ok(i) /\ (tasks[i + 1].dev_lines = <<>> \/ tasks[i + 1].prod_lines = <<>>))
    => results[i].diff = OneSidedDiff(tasks[i + 1].dev_lines, tasks[i + 1].prod_lines)

C3_UnitSlices ==
  /\ Segmented =>
       \A i \in 0..(CeilDiv(Max(Len(dev_file), Len(prod_file)), page_lines) - 1) :
         UnitPairsSlices(i)
  /\ Submitted => \A i \in 0..(Len(tasks) - 1) : OneSidedUnitDiffed(i)

\* unit 1 exists on the dev side only and was diffed
C3_Witness ==
  /\ Submitted
  /\ Len(tasks) = 2
  /\ Len(prod_file) = 1
  /\ Ok(1)
  /\ results[1].stats.removed = 1

(* C4: the document similarity ratio is the summed similarity_weighted of   *)
(* the units over their summed weight, and 1.0 when the summed weight is 0  *)
(* (stated for runs in which no unit failed).                               *)
RECURSIVE SumStat(_, _, _)
SumStat(res, pages, stat) ==
  IF pages = {} THEN 0
  ELSE res[CHOOSE p \in pages : \A q \in pages : p <= q].stats[stat]
         + SumStat(res, pages \ {CHOOSE p \in pages : \A q \in pages : p <= q}, stat)

RatioEq(x, y) == x[1] * y[2] = y[1] * x[2]

WeightedMean(sw, w) == IF w > 0 THEN << sw, w >> ELSE << 1, 1 >>

C4_WeightedMean ==
  (Streamed /\ AllOk) =>
    RatioEq(precalc.similarity_ratio,
            WeightedMean(SumStat(results, DOMAIN results, "similarity_weighted"),
                         SumStat(results, DOMAIN results, "total_chars")))

(* C5: a unit whose task raises gets an entry with an empty diff and all    *)
(* statistics zero, compare_pages_streaming still finishes, and the stored  *)
(* results and the contributions of the other units are what they are       *)
(* without the failure.                                                     *)
ZeroStats ==
  [ added |-> 0, removed |-> 0, changed |-> 0, unchanged |-> 0,
    similarity_weighted |-> 0, total_chars |-> 0 ]

OkPages == { p \in DOMAIN outcome : outcome[p] = "ok" }

C5_FailureIsolated ==
  Streamed =>
    /\ \A p \in DOMAIN outcome \ OkPages :
         /\ page_diffs[p + 1].diff = <<>>
         /\ results[p].stats = ZeroStats
    /\ \A p \in OkPages : results[p] = result_entry(task_result(p))
    /\ precalc.changes.added = SumStat(results, OkPages, "added")
    /\ precalc.changes.removed = SumStat(results, OkPages, "removed")
    /\ precalc.changes.modified = SumStat(results, OkPages, "changed")
    /\ precalc.changes.unchanged = SumStat(results, OkPages, "unchanged")
    /\ precalc.matching_chars = SumStat(results, OkPages, "similarity_weighted")

\* the task of one unit raised, the other unit's lines are counted
C5_Witness ==
  /\ pc = "done"
  /\ Len(tasks) = 2
  /\ outcome[0] = "error"
  /\ outcome[1] = "ok"
  /\ precalc.changes.unchanged = 1
  /\ precalc.matching_chars > 0

(* C6: a unit failure is recorded, attached to its index, in what compare   *)
(* hands back (the stored entry of the unit or the analytics), so a caller  *)
(* can tell the document was only partly compared.                          *)
EntryKeys == {"page_num", "dev_lines", "prod_lines", "diff"}

AnalyticsKeys ==
  {"similarity_ratio", "similarity_percent", "difference_percent", "total_pages",
   "total_lines", "changes", "characters", "words"}

C6_FailureReported ==
  (pc = "done" /\ returned.report_path # "") =>
    \A p \in DOMAIN outcome \ OkPages :
      \/ DOMAIN page_diffs[p + 1] \ EntryKeys # {}
      \/ DOMAIN returned.analytics \ AnalyticsKeys # {}

(* C7: the document totals and analytics do not depend on the order in      *)
(* which the unit results arrive: they are those of the run in which the    *)
(* tasks complete in index order (stated for runs in which no unit failed). *)

\* the value the local total_chars holds after the as_completed loop when
\* the futures are yielded in the order ord with the outcomes oc
RECURSIVE last_unpacked(_, _)
last_unpacked(ord, oc) ==
  IF ord = <<>> THEN 0
  ELSE IF oc[ord[Len(ord)]] # "error" THEN task_result(ord[Len(ord)]).total_chars
  ELSE last_unpacked(SubSeq(ord, 1, Len(ord) - 1), oc)

IndexOrder == [k \in 1..Len(tasks) |-> k - 1]

C7_OrderIndependent ==
  (pc = "done" /\ returned.report_path # "" /\ AllOk) =>
    returned.analytics =
      calculate_analytics(
        precalc_fields(aggregate(results, Len(tasks), last_unpacked(IndexOrder, outcome), <<>>)),
        page_diffs, Len(dev_pages), Len(prod_pages))

(* C8: progress is reported as (completed_count, M), one report per         *)
(* completion in completion order, the count rising by exactly one each     *)
(* time and never above M.                                                  *)
C8_ProgressMonotone ==
  /\ \A i \in 1..Len(progress_log) : progress_log[i] = << i, UnitCount >>
  /\ Len(progress_log) <= UnitCount
  /\ Len(progress_log) = Cardinality({ p \in DOMAIN outcome : outcome[p] # "error" })
  /\ completed_count = Len(progress_log)

\* two units completed in reverse order and reported
C8_Witness ==
  /\ pc = "done"
  /\ order = <<1, 0>>
  /\ progress_log = << <<1, 2>>, <<2, 2>> >>

(* C9: every finished unit task, failed ones included, makes exactly one    *)
(* progress report, so once all M tasks are handled the last report is      *)
(* (M, M).                                                                  *)
C9_EveryTaskReports ==
  /\ Len(progress_log) = Cardinality(DOMAIN outcome)
  /\ (Submitted /\ pending = {} /\ tasks # <<>>) =>
       /\ progress_log # <<>>
       /\ progress_log[Len(progress_log)] = << Len(tasks), Len(tasks) >>

(* C10: two identical files give added = removed = modified = 0, unchanged  *)
(* = number of lines, and a similarity ratio of exactly 1.0.                *)
C10_IdenticalFiles ==
  (pc = "done" /\ returned.report_path # "" /\ dev_file = prod_file /\ AllOk) =>
    /\ returned.analytics.changes =
         [ added |-> 0, removed |-> 0, modified |-> 0, unchanged |-> Len(dev_file) ]
    /\ returned.analytics.similarity_ratio = << 1, 1 >>

(* C11: a non-empty file of n lines against an empty file gives ceil(n/L)   *)
(* units, each with added = 0 and removed = its own dev line count, the     *)
(* document totals removed = n and added = 0, and similarity ratio 0.0;     *)
(* with the sides swapped, added and removed swap (stated for runs in which *)
(* no unit failed).                                                         *)
Finished == pc = "done" /\ returned.report_path # ""

\* every unit has only lines of the side `full`, counted under `counted`
OneSidedUnits(full, counted, other) ==
  \A p \in DOMAIN results :
    /\ results[p].stats[counted] = Len(tasks[p + 1][full])
    /\ results[p].stats[other] = 0

\* the document totals of a comparison of n lines against nothing
OneSidedTotals(n, counted, other) ==
  /\ returned.analytics.changes[counted] = n
  /\ returned.analytics.changes[other] = 0
  /\ returned.analytics.similarity_ratio = << 0, 1 >>

C11_AgainstEmpty ==
  /\ (Finished /\ AllOk /\ dev_file # <<>> /\ prod_file = <<>>) =>
       /\ Len(tasks) = CeilDiv(Len(dev_file), page_lines)
       /\ OneSidedUnits("dev_lines", "removed", "added")
       /\ OneSidedTotals(Len(dev_file), "removed", "added")
  /\ (Finished /\ AllOk /\ dev_file = <<>> /\ prod_file # <<>>) =>
       /\ Len(tasks) = CeilDiv(Len(prod_file), page_lines)
       /\ OneSidedUnits("prod_lines", "added", "removed")
       /\ OneSidedTotals(Len(prod_file), "added", "removed")

\* two units of one dev line each against an empty prod file
C11_Witness ==
  /\ Finished
  /\ AllOk
  /\ prod_file = <<>>
  /\ Len(tasks) = 2
  /\ returned.analytics.changes.removed = 2

(* C12: in every unit, modified equals the number of removed/added line     *)
(* pairs that the differ joined with one or two hint lines.                 *)

\* the diff from line i on (1-based)
From(diff, i) == SubSeq(diff, i, Len(diff))

TagAt(diff, i) == IF i <= Len(diff) THEN diff[i].tag ELSE "end"

\* number of pairs "-", ["?"], "+", ["?"] with at least one "?" line
RECURSIVE HintPairs(_)
HintPairs(diff) ==
  IF diff = <<>> THEN 0
  ELSE IF TagAt(diff, 1) = "-" /\ TagAt(diff, 2) = "?" /\ TagAt(diff, 3) = "+"
    THEN 1 + HintPairs(From(diff, IF TagAt(diff, 4) = "?" THEN 5 ELSE 4))
  ELSE IF TagAt(diff, 1) = "-" /\ TagAt(diff, 2) = "+" /\ TagAt(diff, 3) = "?"
    THEN 1 + HintPairs(From(diff, 4))
  ELSE HintPairs(Tail(diff))

C12_ModifiedCountsPairs ==
  \A p \in DOMAIN results :
    Ok(p) => results[p].stats.changed = HintPairs(results[p].diff)

(* C13: the removed line and the added line of a hint-joined pair are not   *)
(* counted as removed and added: a unit's removed (added) count is the      *)
(* number of its "-" ("+") lines that belong to no such pair.               *)
C13_PairsNotAddedRemoved ==
  \A p \in DOMAIN results :
    Ok(p) =>
      /\ results[p].stats.removed = CountTag(results[p].diff, "-") - HintPairs(results[p].diff)
      /\ results[p].stats.added = CountTag(results[p].diff, "+") - HintPairs(results[p].diff)

(* C14: when both files are read and both are empty, compare produces zero  *)
(* units and returns analytics with similarity ratio 1.0 (100%) and all     *)
(* change totals zero.                                                      *)
HasAnalytics == DOMAIN returned.analytics # {}

NoChanges == [ added |-> 0, removed |-> 0, modified |-> 0, unchanged |-> 0 ]

C14_BothEmpty ==
  (pc = "done" /\ unreadable = {} /\ dev_file = <<>> /\ prod_file = <<>>) =>
    /\ tasks = <<>>
    /\ HasAnalytics
    /\ returned.analytics.similarity_ratio = << 1, 1 >>
    /\ returned.analytics.similarity_percent = 100
    /\ returned.analytics.changes = NoChanges

(* C15: when neither file can be opened, compare returns an empty report    *)
(* path and empty analytics, runs no unit diff and writes no file; and in   *)
(* no other case does compare return an empty result.                       *)
NoResult == returned = [report_path |-> "", analytics |-> <<>>]

C15_FailFastOnlyUnextractable ==
  pc = "done" =>
    /\ unreadable = Sides => (NoResult /\ futures = <<>> /\ written = {})
    /\ NoResult => unreadable = Sides

(* C16: when exactly one file cannot be opened, compare still returns       *)
(* analytics, these report 0 pages and 0 lines for that side, and every     *)
(* unit pairs the other side's page with an empty slice.                    *)
FailedSideEmpty(failed, slice) ==
  /\ HasAnalytics
  /\ returned.analytics.total_pages[failed] = 0
  /\ returned.analytics.total_lines[failed] = 0
  /\ \A k \in 1..Len(tasks) : tasks[k][slice] = <<>>
  /\ \A p \in DOMAIN results :
       Ok(p) => results[p].diff = OneSidedDiff(tasks[p + 1].dev_lines, tasks[p + 1].prod_lines)

C16_OneSideUnloaded ==
  /\ (pc = "done" /\ unreadable = {"dev"}) => FailedSideEmpty("dev", "dev_lines")
  /\ (pc = "done" /\ unreadable = {"prod"}) => FailedSideEmpty("prod", "prod_lines")

(* C17: two runs of the comparison on the same files with the same page     *)
(* size return analytics that are equal in every field (stated for runs in  *)
(* which no unit failed; the timestamp, which the model leaves out, aside). *)
C17_SameAnalyticsTwice ==
  (Finished /\ AllOk /\ first_run # NoValue
     /\ \A p \in DOMAIN first_run.outcome : first_run.outcome[p] = "ok") =>
    returned.analytics = first_run.analytics

(* C18: once cancel() has set the flag, no further unit task is submitted,  *)
(* and every entry of the results buffer is a whole entry.                  *)
WholeEntry(entry) == DOMAIN entry = {"page_num", "dev_lines", "prod_lines", "diff", "stats"}

C18_NoSubmitAfterCancel ==
  /\ worker.is_cancelled => worker.submitted = worker.submitted_at_cancel
  /\ \A p \in DOMAIN results : WholeEntry(results[p])

(* C19: the results entry of each unit is assigned exactly once in a run:   *)
(* every handled unit has one assignment, and a unit whose diff result was  *)
(* received keeps that result.                                              *)
Received(p) == p \in DOMAIN outcome /\ outcome[p] \in {"ok", "cb_error"}

C19_WriteOnce ==
  \A p \in DOMAIN outcome :
    /\ writes[p] = 1
    /\ Received(p) => results[p] = result_entry(task_result(p))

(* C20: a stored unit result does not retain the unit's dev and prod line   *)
(* buffers, so the number of units whose line buffers are held is at most   *)
(* the worker count.                                                        *)

\* self.max_workers = multiprocessing.cpu_count(), on a machine with one CPU
max_workers == 1

\* the entry holds lines of its unit
RetainsLines(entry) == entry.dev_lines # <<>> \/ entry.prod_lines # <<>>

\* the units whose line buffers the results buffer holds
HeldUnits == { p \in DOMAIN results : RetainsLines(results[p]) }

C20_BuffersReleased ==
  /\ \A p \in DOMAIN results : ~RetainsLines(results[p])
  /\ \A k \in 1..Len(page_diffs) : ~RetainsLines(page_diffs[k])
  /\ Cardinality(HeldUnits) <= max_workers

(* C21: every entry of the ordered result list carries as page_num its      *)
(* 0-based unit index, its position in the list, whether the unit was       *)
(* diffed or its entry is the substitute of a failure.                      *)
C21_IndexIsPosition ==
  JustStreamed =>
    \A k \in 1..Len(page_diffs) : page_diffs[k].page_num = k - 1

(* C22: the character total the analytics report for a side is the sum over *)
(* all units of the length of that side's unit content, and the two totals  *)
(* together are the summed unit weight that the similarity ratio is divided *)
(* by (stated for runs in which no unit failed).                            *)

\* sum over the units ts of the character length of their content on side
RECURSIVE UnitChars(_, _)
UnitChars(ts, side) ==
  IF ts = <<>> THEN 0 ELSE Len(Join(Head(ts)[side])) + UnitChars(Tail(ts), side)

\* the denominator of matching_chars / total_chars
SimilarityDenominator == precalc.total_chars

C22_CharacterTotals ==
  (Finished /\ AllOk) =>
    /\ returned.analytics.characters.dev = UnitChars(tasks, "dev_lines")
    /\ returned.analytics.characters.prod = UnitChars(tasks, "prod_lines")
    /\ returned.analytics.characters.dev + returned.analytics.characters.prod
         = SimilarityDenominator

(* C23: for each of the file types pdf, excel and txt, the worker          *)
(* constructs the comparator of the selected type for every valid file pair *)
(* and runs its compare(), and a pair whose files can both be read ends     *)
(* with a file_completed signal of status 'success' (pairs that fail on the *)
(* file system, at the output folder or the report files, aside).           *)

\* the file pairs whose loop body has run to its end
EndedPairs == 1..(worker.idx - 1)

\* the signal was emitted
Emitted(sig) == \E i \in 1..Len(emitted) : emitted[i] = sig

\* the comparator of the selected file type was constructed for pair k
Constructed(k) ==
  \E i \in 1..Len(worker.constructed) :
    worker.constructed[i] = [ index |-> k, comparator |-> app_state.selected_file_type ]

C23_ReadablePairsSucceed ==
  \A k \in EndedPairs \ worker.env_errors :
    /\ Constructed(k)
    /\ unreadable = {} => Emitted(Signal("file_completed", k, "success"))

(* C24: in every unit whose diff succeeded, removed + unchanged is the      *)
(* number of dev lines of the unit and added + unchanged the number of prod *)
(* lines; in a run without unit failures the document totals therefore      *)
(* satisfy removed + unchanged = total dev lines and added + unchanged =    *)
(* total prod lines.                                                        *)
UnitLinesAccounted(p) ==
  /\ results[p].stats.removed + results[p].stats.unchanged = Len(tasks[p + 1].dev_lines)
  /\ results[p].stats.added + results[p].stats.unchanged = Len(tasks[p + 1].prod_lines)

C24_LinesAccounted ==
  /\ \A p \in DOMAIN results : Ok(p) => UnitLinesAccounted(p)
  /\ (Finished /\ AllOk) =>
       /\ returned.analytics.changes.removed + returned.analytics.changes.unchanged
            = Len(dev_file)
       /\ returned.analytics.changes.added + returned.analytics.changes.unchanged
            = Len(prod_file)
       /\ returned.analytics.total_lines.dev = Len(dev_file)
       /\ returned.analytics.total_lines.prod = Len(prod_file)

\* two units: a changed line joined by hint lines, and a dev line with no
\* prod line
C24_Witness ==
  /\ Finished
  /\ AllOk
  /\ Len(tasks) = 2
  /\ returned.analytics.changes.modified = 1
  /\ returned.analytics.changes.removed = 2
  /\ returned.analytics.changes.added = 1

(* C25: in every analytics record similarity_percent and difference_percent *)
(* are integers in 0..100 and their sum is 100.                             *)
C25_PercentagesSumTo100 ==
  analytics # NoValue =>
    /\ analytics.similarity_percent \in 0..100
    /\ analytics.difference_percent \in 0..100
    /\ analytics.similarity_percent + analytics.difference_percent = 100

(* C26: a run of the worker that does not return on the cancel flag ends    *)
(* having emitted exactly one of comparison_complete and comparison_error,  *)
(* never both; a run that returns on the cancel flag has emitted neither.   *)

\* the ending signals emitted so far
EndingSignals == { i \in 1..Len(emitted) : IsTerminal(emitted[i]) }

C26_OneEndingSignal ==
  /\ Cardinality(EndingSignals) <= 1
  /\ worker.at = "finished" =>
       Cardinality(EndingSignals) = IF worker.observed_cancel THEN 0 ELSE 1

\* a run of two pairs that ended with comparison_complete although cancel
\* was requested while the summary was generated
C26_Witness ==
  /\ worker.at = "finished"
  /\ worker.total_files = 2
  /\ worker.is_cancelled
  /\ ~worker.observed_cancel
  /\ Emitted(Signal("comparison_complete", 0, "MASTER_SUMMARY"))

(* C27: for every file pair the loop has started (progress_updated was      *)
(* emitted for it) exactly one file_completed signal is emitted, with       *)
(* status 'success' or 'error', before the progress_updated of the next     *)
(* pair; and a pair that failed does not keep the remaining pairs from      *)
(* being compared.                                                          *)

\* the positions in emitted of the signal name for pair k
SignalsOf(name, k) ==
  { i \in 1..Len(emitted) : emitted[i].signal = name /\ emitted[i].index = k }

\* pair k has one file_completed, after its progress_updated and before
\* that of any later pair
OneCompletion(k) ==
  /\ Cardinality(SignalsOf("file_completed", k)) = 1
  /\ \A c \in SignalsOf("file_completed", k) :
       /\ emitted[c].status \in { "success", "error" }
       /\ \A i \in SignalsOf("progress_updated", k) : i < c
       /\ \A i \in SignalsOf("progress_updated", k + 1) : c < i

\* the loop has ended without the flag having been seen
LoopRanOut == worker.at \in { "after_loop", "summary" } \/
              (worker.at = "finished" /\ ~worker.observed_cancel /\ worker.total_files > 0)

C27_OneCompletionPerPair ==
  /\ \A k \in EndedPairs : SignalsOf("progress_updated", k) # {} => OneCompletion(k)
  /\ LoopRanOut =>
       \A k \in 1..worker.total_files : SignalsOf("progress_updated", k) # {}

(* C28: once the runner screen has handled a cancel click on a running      *)
(* worker (cancel, wait, cancel_comparison), the comparison status is       *)
(* CANCELLED and stays so, and the session is not recorded as completed,    *)
(* whatever signal of the cancelled run is delivered afterwards.            *)
C28_CancelledStays ==
  runner.cancel_handled =>
    /\ app_state.comparison_status = "CANCELLED"
    /\ app_state.current_session.status = "CANCELLED"
    /\ app_state.recent_sessions = <<>>

(* C29: navigation is a stack round trip: from any reachable state,         *)
(* navigate_to(s) for a screen s other than the current one, followed by    *)
(* AppState.go_back or by MainWindow._go_back, restores current_screen and  *)
(* screen_history; go_back on an empty history returns None and changes     *)
(* nothing; navigate_to(current_screen) changes nothing.                    *)
C29_NavigationRoundTrip ==
  /\ \A s \in Screens \ { app_state.current_screen } :
       /\ navigate_to(app_state, s) # app_state
       /\ go_back(navigate_to(app_state, s)).app = app_state
       /\ go_back(navigate_to(app_state, s)).result = app_state.current_screen
       /\ MainWindow_go_back(navigate_to(app_state, s)) = app_state
  /\ app_state.screen_history = <<>> =>
       /\ go_back(app_state) = [ app |-> app_state, result |-> None ]
       /\ MainWindow_go_back(app_state) = app_state
  /\ navigate_to(app_state, app_state.current_screen) = app_state

\* the runner screen reached through the folder selector, then the file
\* type selector opened from it
C29_Witness ==
  /\ app_state.current_screen = "file_type_selector"
  /\ app_state.screen_history =
       << "file_type_selector", "folder_selector", "comparison_runner" >>

(* C30: in the statistics calculate_aggregate_stats computes over a         *)
(* non-empty list of snapshots with similarity_percent in 0..100, every     *)
(* snapshot is counted in exactly one of the buckets identical (= 100),     *)
(* high (90..99), medium (70..89) and low (< 70), so the four counts add up *)
(* to total_files.                                                          *)

\* the snapshots of the loaded data whose percentage lies in the set
InBucket(percents) ==
  Cardinality({ k \in 1..Len(summary.analytics_data) :
                  summary.analytics_data[k].similarity_percent \in percents })

Summarized == summary.stats # NoValue /\ summary.analytics_data # <<>>

C30_BucketsPartition ==
  Summarized =>
    /\ summary.stats.similarity.identical = InBucket({ 100 })
    /\ summary.stats.similarity.high = InBucket(90..99)
    /\ summary.stats.similarity.medium = InBucket(70..89)
    /\ summary.stats.similarity.low = InBucket(0..69)
    /\ summary.stats.similarity.identical + summary.stats.similarity.high
         + summary.stats.similarity.medium + summary.stats.similarity.low
         = summary.stats.total_files
    /\ summary.stats.total_files = Len(summary.analytics_data)

\* two snapshots on the two sides of a bucket border
C30_Witness ==
  /\ Summarized
  /\ summary.stats.total_files = 2
  /\ summary.stats.similarity.medium = 1
  /\ summary.stats.similarity.high = 1
  /\ summary.analytics_data[1].similarity_percent = 90
  /\ summary.analytics_data[2].similarity_percent = 89


====
